---------------------------- MODULE Spec2Model ----------------------------
(***************************************************************************)
(* Model of amadeus_tool.py: the OAuth2 token fetch and the two search     *)
(* clients search_amadeus_flights and search_amadeus_hotels.               *)
(*                                                                         *)
(* One client call runs at a time (the clients share no mutable state).    *)
(* A call is cut at its blocking network requests: the action that starts  *)
(* the call runs the code up to the first request, and each response       *)
(* action runs the code from that response up to the next request or to    *)
(* the return.  The provider's answers are the nondeterministic inputs.    *)
(*                                                                         *)
(* Python values:                                                          *)
(*   - a str is a TLA+ string;                                             *)
(*   - a value that may be None is wrapped: None is <<>>, a value v is     *)
(*     <<v>> (JSON null is None);                                          *)
(*   - a dict is a record (a function on its keys);                        *)
(*   - the hotel client's step tag is "auth", 1 or 2 in Python; it is kept *)
(*     as its repr text ("'auth'", "1", "2") so that the three tags live   *)
(*     in one TLA+ type.                                                   *)
(* Behaviour of the requests library used here: raise_for_status raises    *)
(* HTTPError for 400 <= status < 600; bool(Response) is Response.ok, that  *)
(* is, False exactly when raise_for_status would raise; str(HTTPError) is  *)
(* "<status> Client|Server Error: <reason> for url: <url>".  Response      *)
(* bodies are syntactically valid JSON objects.                            *)
(***************************************************************************)
EXTENDS Integers, Sequences, FiniteSets, TLC

VARIABLES
    AMADEUS_API_KEY,     \* module global, read once from the environment
    AMADEUS_API_SECRET,  \* module global, read once from the environment
    pc,                  \* position of the running call
    fn,                  \* the client function being called
    args,                \* its arguments
    token,               \* local: token / access_token
    hotel_ids,           \* local of search_amadeus_hotels
    requests,            \* outbound requests issued by this call, in order
    responses,           \* what the provider answered to them, in order
    outcome,             \* "none", "return" or "raise"
    result               \* <<returned value>>, or <<exception name>> if raised

vars == <<AMADEUS_API_KEY, AMADEUS_API_SECRET, pc, fn, args, token,
          hotel_ids, requests, responses, outcome, result>>

----------------------------------------------------------------------------
(* Bounds of the model *)

MaxData == 2          \* longest "data" array of a hotel-list response
MaxMaxHotels == 2     \* largest max_hotels argument
MaxPassengers == 1    \* largest children / infants argument

----------------------------------------------------------------------------
(* Python values and string methods *)

None == <<>>

Some(v) == <<v>>

\* bool(x) of an optional str: None and "" are falsy
Truthy(x) == x # None /\ x[1] # ""

LowerLetters == "abcdefghijklmnopqrstuvwxyz"

UpperLetters == "ABCDEFGHIJKLMNOPQRSTUVWXYZ"

CharAt(s, i) == SubSeq(s, i, i)

MapChar(c, from, to) ==
    IF \E i \in 1..Len(from) : CharAt(from, i) = c
    THEN CharAt(to, CHOOSE i \in 1..Len(from) : CharAt(from, i) = c)
    ELSE c

RECURSIVE MapStr(_, _, _)
MapStr(s, from, to) ==
    IF s = "" THEN ""
    ELSE MapChar(CharAt(s, 1), from, to) \o MapStr(SubSeq(s, 2, Len(s)), from, to)

\* str.upper()
Upper(s) == MapStr(s, LowerLetters, UpperLetters)

\* str.lower()
Lower(s) == MapStr(s, UpperLetters, LowerLetters)

\* str(b) of a bool
StrOfBool(b) == IF b THEN "True" ELSE "False"

\* sub in s
Contains(s, sub) ==
    \E i \in 1..(Len(s) - Len(sub) + 1) : SubSeq(s, i, i + Len(sub) - 1) = sub

\* d.get(k)
DictGet(d, k) == IF k \in DOMAIN d THEN d[k] ELSE None

\* d.get(k, default)
DictGetDefault(d, k, default) == IF k \in DOMAIN d THEN d[k] ELSE default

\* d[k] = v on a dict
DictSet(d, k, v) == (k :> v) @@ d

RECURSIVE Join(_, _)
\* sep.join(seq)
Join(sep, seq) ==
    IF seq = <<>> THEN ""
    ELSE IF Len(seq) = 1 THEN seq[1]
    ELSE seq[1] \o sep \o Join(sep, Tail(seq))

Min(a, b) == IF a < b THEN a ELSE b

Max(a, b) == IF a > b THEN a ELSE b

\* seq[:n], negative n counting from the end
SlicePrefix(seq, n) ==
    IF n >= 0 THEN SubSeq(seq, 1, Min(n, Len(seq)))
    ELSE SubSeq(seq, 1, Max(0, Len(seq) + n))

----------------------------------------------------------------------------
(* The requests library *)

\* response.raise_for_status() raises
RaisesForStatus(r) == r.status_code >= 400 /\ r.status_code < 600

\* bool(response), i.e. response.ok
ResponseBool(r) == ~RaisesForStatus(r)

\* str(e) of the HTTPError raised by raise_for_status
HTTPErrorText(r, url) ==
    ToString(r.status_code)
        \o (IF r.status_code < 500 THEN " Client Error: " ELSE " Server Error: ")
        \o r.reason \o " for url: " \o url

\* variant: raise_for_status is never called, only transport failures raise
Raises_TransportOnly(r) == r.kind = "exception"

\* the request failed with a RequestException
Raises(r) == r.kind = "exception" \/ RaisesForStatus(r)

\* the RequestException e: e.response and str(e)
Exc(r, url) ==
    IF r.kind = "exception"
    THEN [response |-> None, str |-> r.text]
    ELSE [response |-> Some(r), str |-> HTTPErrorText(r, url)]


----------------------------------------------------------------------------
(* Module constants *)

TOKEN_URL == "https://test.api.amadeus.com/v1/security/oauth2/token"

FLIGHT_OFFERS_URL == "https://test.api.amadeus.com/v2/shopping/flight-offers"

TIMEOUT == 20

TravelClasses == {"ECONOMY", "PREMIUM_ECONOMY", "BUSINESS", "FIRST"}

ConfigErrorText == "Error: Amadeus API Key or Secret is not set in environment variables."

----------------------------------------------------------------------------
(* Inputs: the environment, the callers' arguments, the provider's answers *)

CredentialValues(v) == {None, Some(""), Some(v)}

FlightArgs ==
    [origin_location_code : {"MAD"},
     destination_location_code : {"BCN"},
     departure_date : {"2026-02-15"},
     adults : {1},
     non_stop : BOOLEAN,
     return_date : {None, Some(""), Some("2026-02-18")},
     children : -1..MaxPassengers,
     infants : -1..MaxPassengers,
     travel_class : {None, Some(""), Some("economy"), Some("ECONOMY"),
                     Some("Premium_Economy"), Some("business"), Some("First"),
                     Some("FOO"), Some("eco")},
     max_results : {3}]

HotelArgs ==
    [city_code : {"PAR"},
     check_in_date : {"2026-02-15"},
     check_out_date : {"2026-02-18"},
     adults : {1},
     use_test_env : BOOLEAN,
     radius_km : {1000},
     max_hotels : -1..MaxMaxHotels,
     currency : {"", "EUR"},
     price_range : {"", "1-10000"},
     room_quantity : {1},
     view : {"", "LIGHT"}]

\* a request that failed without any response (connection error, timeout)
TransportFailures ==
    {[kind |-> "exception", text |-> "Connection refused"]}

HttpResponse(status, reason, text, json) ==
    [kind |-> "http", status_code |-> status, reason |-> reason,
     text |-> text, json |-> json]

TokenResponses ==
    { HttpResponse(200, "OK", "{\"access_token\": \"tok\"}", [access_token |-> Some("tok")]),
      HttpResponse(200, "OK", "{\"access_token\": \"\"}", [access_token |-> Some("")]),
      HttpResponse(200, "OK", "{\"access_token\": null}", [access_token |-> None]),
      HttpResponse(200, "OK", "{\"token_type\": \"Bearer\"}", [token_type |-> "Bearer"]),
      HttpResponse(401, "Unauthorized", "{\"error\": \"invalid_client\"}", [error |-> "invalid_client"]) }
    \cup TransportFailures

FlightOffersResponses ==
    { HttpResponse(200, "OK", "{\"data\": \"F1\"}", [data |-> "F1"]),
      HttpResponse(200, "OK", "{\"data\": \"\"}", [data |-> ""]),
      HttpResponse(400, "Bad Request", "{\"errors\": \"INVALID DATE\"}", [errors |-> "INVALID DATE"]),
      HttpResponse(500, "Internal Server Error", "", [errors |-> ""]) }
    \cup TransportFailures

\* str(d) of a flight-offers body, a dict with the one key data or errors
StrOfFlightBody(d) ==
    IF "data" \in DOMAIN d
    THEN "{'data': '" \o d.data \o "'}"
    ELSE "{'errors': '" \o d.errors \o "'}"

----------------------------------------------------------------------------
(* State after import: the credentials are whatever the environment held *)

Init ==
    /\ AMADEUS_API_KEY \in CredentialValues("key")
    /\ AMADEUS_API_SECRET \in CredentialValues("secret")
    /\ pc = "idle"
    /\ fn = "none"
    /\ args = [city_code |-> ""]
    /\ token = None
    /\ hotel_ids = <<>>
    /\ requests = <<>>
    /\ responses = <<>>
    /\ outcome = "none"
    /\ result = <<>>

Globals == <<AMADEUS_API_KEY, AMADEUS_API_SECRET>>

\* the call returns v
Return(v) ==
    /\ pc' = "done"
    /\ outcome' = "return"
    /\ result' = <<v>>

\* the call ends with an uncaught exception
Raise(name) ==
    /\ pc' = "done"
    /\ outcome' = "raise"
    /\ result' = <<name>>

\* the call blocks on its next request
Send(req, at) ==
    /\ requests' = Append(requests, req)
    /\ pc' = at
    /\ UNCHANGED <<outcome, result>>

----------------------------------------------------------------------------
(* _get_amadeus_token and search_amadeus_flights *)

\* the guard of _get_amadeus_token
CredentialsSet == Truthy(AMADEUS_API_KEY) /\ Truthy(AMADEUS_API_SECRET)

TokenRequest(url, timeout) ==
    [method |-> "POST", url |-> url,
     headers |-> [ContentType |-> "application/x-www-form-urlencoded"],
     data |-> [grant_type |-> "client_credentials",
               client_id |-> AMADEUS_API_KEY,
               client_secret |-> AMADEUS_API_SECRET],
     timeout |-> timeout]

\* variant: _get_amadeus_token without raise_for_status
get_amadeus_token_NoRaiseForStatus(r) ==
    IF r.kind = "exception"
    THEN Some("Error fetching Amadeus token: " \o Exc(r, TOKEN_URL).str)
    ELSE DictGet(r.json, "access_token")

\* what _get_amadeus_token returns once the token endpoint has answered r
get_amadeus_token(r) ==
    IF Raises(r)
    THEN Some("Error fetching Amadeus token: " \o Exc(r, TOKEN_URL).str)
    ELSE DictGet(r.json, "access_token")

\* variant: travel_class is upper-cased and sent without the membership test
FlightParams_Unvalidated(a) ==
    LET base == [originLocationCode |-> a.origin_location_code,
                 destinationLocationCode |-> a.destination_location_code,
                 departureDate |-> a.departure_date,
                 adults |-> a.adults,
                 nonStop |-> Lower(StrOfBool(a.non_stop)),
                 max |-> a.max_results]
        p1 == IF Truthy(a.return_date)
              THEN DictSet(base, "returnDate", a.return_date[1]) ELSE base
        p2 == IF a.children > 0 THEN DictSet(p1, "children", a.children) ELSE p1
        p3 == IF a.infants > 0 THEN DictSet(p2, "infants", a.infants) ELSE p2
    IN  IF Truthy(a.travel_class)
        THEN DictSet(p3, "travelClass", Upper(a.travel_class[1]))
        ELSE p3

\* the query of the flight-offers request
FlightParams(a) ==
    LET base == [originLocationCode |-> a.origin_location_code,
                 destinationLocationCode |-> a.destination_location_code,
                 departureDate |-> a.departure_date,
                 adults |-> a.adults,
                 nonStop |-> Lower(StrOfBool(a.non_stop)),
                 max |-> a.max_results]
        p1 == IF Truthy(a.return_date)
              THEN DictSet(base, "returnDate", a.return_date[1]) ELSE base
        p2 == IF a.children > 0 THEN DictSet(p1, "children", a.children) ELSE p1
        p3 == IF a.infants > 0 THEN DictSet(p2, "infants", a.infants) ELSE p2
    IN  IF Truthy(a.travel_class) /\ Upper(a.travel_class[1]) \in TravelClasses
        THEN DictSet(p3, "travelClass", Upper(a.travel_class[1]))
        ELSE p3

FlightRequest(tok, a) ==
    [method |-> "GET", url |-> FLIGHT_OFFERS_URL,
     headers |-> [Authorization |-> "Bearer " \o tok],
     params |-> FlightParams(a),
     timeout |-> None]

\* search_amadeus_flights from the value of token to the flight-offers
\* request or the early return
FlightAfterToken(tok) ==
    /\ token' = tok
    /\ IF tok = None
       THEN \* "Error" in None
            Raise("TypeError") /\ UNCHANGED requests
       ELSE IF Contains(tok[1], "Error")
       THEN Return(tok[1]) /\ UNCHANGED requests
       ELSE Send(FlightRequest(tok[1], args), "f_offers")

\* search_amadeus_flights is called: up to the token request, or through
\* the whole call when the credentials are not set
CallFlights(a) ==
    /\ pc = "idle"
    /\ fn' = "flights"
    /\ args' = a
    /\ IF CredentialsSet
       THEN /\ Send(TokenRequest(TOKEN_URL, None), "f_token")
            /\ UNCHANGED token
       ELSE /\ token' = Some(ConfigErrorText)
            /\ Return(ConfigErrorText)
            /\ UNCHANGED requests
    /\ UNCHANGED <<Globals, hotel_ids, responses>>

\* the token endpoint answers the flight client
FlightTokenResponse(r) ==
    /\ pc = "f_token"
    /\ responses' = Append(responses, r)
    /\ FlightAfterToken(get_amadeus_token(r))
    /\ UNCHANGED <<Globals, fn, args, hotel_ids>>

\* the value search_amadeus_flights returns once flight-offers answered r
FlightResult(r) ==
    IF Raises(r)
    THEN LET e == Exc(r, FLIGHT_OFFERS_URL)
         IN  IF e.response # None
             THEN "Error from Amadeus API: " \o e.response[1].text
             ELSE "Error fetching flight offers: " \o e.str
    ELSE StrOfFlightBody(r.json)

\* the flight-offers endpoint answers
FlightOffersResponse(r) ==
    /\ pc = "f_offers"
    /\ responses' = Append(responses, r)
    /\ Return(FlightResult(r))
    /\ UNCHANGED <<Globals, fn, args, token, hotel_ids, requests>>

\* the caller takes the outcome; the next call starts from fresh locals
Finish ==
    /\ pc = "done"
    /\ pc' = "idle"
    /\ fn' = "none"
    /\ args' = [city_code |-> ""]
    /\ token' = None
    /\ hotel_ids' = <<>>
    /\ requests' = <<>>
    /\ responses' = <<>>
    /\ outcome' = "none"
    /\ result' = <<>>
    /\ UNCHANGED Globals

----------------------------------------------------------------------------
(* search_amadeus_hotels *)

HotelEntries ==
    {[hotelId |-> Some("H1")], [hotelId |-> Some("H2")],
     [hotelId |-> Some("")], [name |-> "HOTEL"]}

HotelDataArrays == UNION {[1..n -> HotelEntries] : n \in 0..MaxData}

HotelListResponses ==
    { HttpResponse(200, "OK", "{\"data\": [...]}", [data |-> Some(d)]) : d \in HotelDataArrays }
    \cup
    { HttpResponse(200, "OK", "{\"data\": null}", [data |-> None]),
      HttpResponse(200, "OK", "{\"meta\": \"m\"}", [meta |-> "m"]),
      HttpResponse(400, "Bad Request", "{\"errors\": \"INVALID CITY\"}", [errors |-> "INVALID CITY"]) }
    \cup TransportFailures

HotelOffersResponses ==
    { HttpResponse(200, "OK", "{\"data\": \"O1\"}", [data |-> "O1"]),
      HttpResponse(200, "OK", "{\"data\": \"\", \"warnings\": \"W\"}", [data |-> "", warnings |-> "W"]),
      HttpResponse(400, "Bad Request", "{\"errors\": \"NO ROOMS\"}", [errors |-> "NO ROOMS"]) }
    \cup TransportFailures

Base(a) == IF a.use_test_env THEN "https://test.api.amadeus.com" ELSE "https://api.amadeus.com"

HotelTokenUrl(a) == Base(a) \o "/v1/security/oauth2/token"

HOTEL_LIST_URL(a) == Base(a) \o "/v1/reference-data/locations/hotels/by-city"

HOTEL_OFFERS_URL(a) == Base(a) \o "/v3/shopping/hotel-offers"

\* details = getattr(e, "response", None).text if getattr(e, "response", None) else str(e)
Details(e) ==
    IF e.response # None /\ ResponseBool(e.response[1])
    THEN e.response[1].text
    ELSE e.str

AuthFailed(details) ==
    [error |-> "Amadeus authentication failed", details |-> details, step |-> "'auth'"]

NoAccessToken(text) ==
    [error |-> "No access_token in token response", details |-> text, step |-> "'auth'"]

HotelListError(details) ==
    [error |-> "Hotel List API error", details |-> details, step |-> "1"]

ParseError(text) ==
    [error |-> "Could not parse hotel IDs: " \o text, step |-> "1"]

NoHotelsFound(city_code) ==
    [error |-> "No hotels found in " \o city_code \o ". Check city code or increase radius.",
     step |-> "1"]

HotelOffersError(details) ==
    [error |-> "Hotel Offers API error", details |-> details, step |-> "2"]

HotelListRequest(tok, a) ==
    [method |-> "GET", url |-> HOTEL_LIST_URL(a),
     headers |-> [Authorization |-> "Bearer " \o tok],
     params |-> [cityCode |-> a.city_code, radius |-> a.radius_km, radiusUnit |-> "KM"],
     timeout |-> Some(TIMEOUT)]

\* [h.get("hotelId") for h in hotels_data if h.get("hotelId")]
UsableHotelIds(hotels_data) ==
    LET kept == SelectSeq(hotels_data, LAMBDA h : Truthy(DictGet(h, "hotelId")))
    IN  [i \in 1..Len(kept) |-> kept[i].hotelId[1]]

\* hotel_ids = [...][:max_hotels]
HotelIds(hotels_data, max_hotels) == SlicePrefix(UsableHotelIds(hotels_data), max_hotels)

\* the query of the hotel-offers request
OfferParams(ids, a) ==
    LET base == [hotelIds |-> Join(",", ids),
                 checkInDate |-> a.check_in_date,
                 checkOutDate |-> a.check_out_date,
                 adults |-> a.adults,
                 roomQuantity |-> a.room_quantity,
                 includeClosed |-> "true",
                 bestRateOnly |-> "false",
                 priceRange |-> a.price_range,
                 view |-> "FULL"]
        p1 == IF a.currency # "" THEN DictSet(base, "currency", a.currency) ELSE base
        p2 == IF a.price_range # "" THEN DictSet(p1, "priceRange", a.price_range) ELSE p1
    IN  IF a.view # "" THEN DictSet(p2, "view", a.view) ELSE p2

HotelOffersRequest(tok, ids, a) ==
    [method |-> "GET", url |-> HOTEL_OFFERS_URL(a),
     headers |-> [Authorization |-> "Bearer " \o tok],
     params |-> OfferParams(ids, a),
     timeout |-> Some(TIMEOUT)]

\* search_amadeus_hotels is called: up to the token request
CallHotels(a) ==
    /\ pc = "idle"
    /\ fn' = "hotels"
    /\ args' = a
    /\ Send(TokenRequest(HotelTokenUrl(a), Some(TIMEOUT)), "h_token")
    /\ UNCHANGED <<Globals, token, hotel_ids, responses>>

\* the token endpoint answers the hotel client: AUTH, up to the list request
HotelTokenResponse(r) ==
    /\ pc = "h_token"
    /\ responses' = Append(responses, r)
    /\ IF Raises(r)
       THEN /\ Return(AuthFailed(Details(Exc(r, HotelTokenUrl(args)))))
            /\ UNCHANGED <<token, requests>>
       ELSE LET access_token == DictGet(r.json, "access_token")
            IN  /\ token' = access_token
                /\ IF ~Truthy(access_token)
                   THEN Return(NoAccessToken(r.text)) /\ UNCHANGED requests
                   ELSE Send(HotelListRequest(access_token[1], args), "h_list")
    /\ UNCHANGED <<Globals, fn, args, hotel_ids>>

\* variant: the empty-list check is missing
NoCandidates_Unchecked(ids) == FALSE

\* no identifier is left: if not hotel_ids
NoCandidates(ids) == ids = <<>>

\* the hotel-list endpoint answers: STEP 1, up to the offers request
HotelListResponse(r) ==
    /\ pc = "h_list"
    /\ responses' = Append(responses, r)
    /\ IF Raises(r)
       THEN /\ Return(HotelListError(Details(Exc(r, HOTEL_LIST_URL(args)))))
            /\ UNCHANGED <<hotel_ids, requests>>
       ELSE LET hotels_data == DictGetDefault(r.json, "data", Some(<<>>))
            IN  IF hotels_data = None
                THEN \* iterating None: TypeError, caught
                     /\ Return(ParseError("'NoneType' object is not iterable"))
                     /\ UNCHANGED <<hotel_ids, requests>>
                ELSE LET ids == HotelIds(hotels_data[1], args.max_hotels)
                     IN  /\ hotel_ids' = ids
                         /\ IF NoCandidates(ids)
                            THEN Return(NoHotelsFound(args.city_code)) /\ UNCHANGED requests
                            ELSE Send(HotelOffersRequest(token[1], ids, args), "h_offers")
    /\ UNCHANGED <<Globals, fn, args, token>>

\* variant: only the data key of the offers body is returned
HotelResult_DataOnly(r) ==
    IF Raises(r)
    THEN HotelOffersError(Details(Exc(r, HOTEL_OFFERS_URL(args))))
    ELSE [data |-> r.json.data]

\* the value search_amadeus_hotels returns once hotel-offers answered r
HotelResult(r) ==
    IF Raises(r)
    THEN HotelOffersError(Details(Exc(r, HOTEL_OFFERS_URL(args))))
    ELSE r.json

\* the hotel-offers endpoint answers: STEP 2
HotelOffersResponse(r) ==
    /\ pc = "h_offers"
    /\ responses' = Append(responses, r)
    /\ Return(HotelResult(r))
    /\ UNCHANGED <<Globals, fn, args, token, hotel_ids, requests>>

----------------------------------------------------------------------------
(* The specification *)

Next ==
    \/ \E a \in FlightArgs : CallFlights(a)
    \/ \E r \in TokenResponses : FlightTokenResponse(r)
    \/ \E r \in FlightOffersResponses : FlightOffersResponse(r)
    \/ \E a \in HotelArgs : CallHotels(a)
    \/ \E r \in TokenResponses : HotelTokenResponse(r)
    \/ \E r \in HotelListResponses : HotelListResponse(r)
    \/ \E r \in HotelOffersResponses : HotelOffersResponse(r)
    \/ Finish

Spec == Init /\ [][Next]_vars

----------------------------------------------------------------------------
(* Vocabulary of the properties *)

\* the provider answered with a 2xx status
Is2xx(r) == r.kind = "http" /\ r.status_code >= 200 /\ r.status_code < 300

\* the provider answered with a status outside 2xx
IsNon2xx(r) == r.kind = "http" /\ ~(r.status_code >= 200 /\ r.status_code < 300)

\* the value returned is an error: a string holding "Error" for the flight
\* client, a record with an error key for the hotel client
IsErrorResult ==
    /\ outcome = "return"
    /\ IF fn = "flights" THEN Contains(result[1], "Error") ELSE "error" \in DOMAIN result[1]

\* the hotel client returned an error record tagged with step tag
ReturnedStep(tag) ==
    /\ outcome = "return"
    /\ "error" \in DOMAIN result[1]
    /\ "step" \in DOMAIN result[1]
    /\ result[1].step = tag

\* the stage a request belongs to
StageOfRequest(req) ==
    IF req.method = "POST" THEN "token"
    ELSE IF fn = "flights" /\ req.url = FLIGHT_OFFERS_URL THEN "flight"
    ELSE IF fn = "hotels" /\ req.url = HOTEL_LIST_URL(args) THEN "list"
    ELSE IF fn = "hotels" /\ req.url = HOTEL_OFFERS_URL(args) THEN "offers"
    ELSE "other"

CallCount(stage) ==
    Cardinality({i \in 1..Len(requests) : StageOfRequest(requests[i]) = stage})

\* a hotel-list body holds no entry with a non-empty hotelId
NoUsableIdentifier(json) ==
    \/ "data" \notin DOMAIN json
    \/ json.data = None
    \/ /\ json.data # None
       /\ \A i \in 1..Len(json.data[1]) :
              \/ "hotelId" \notin DOMAIN json.data[1][i]
              \/ json.data[1][i].hotelId \in {None, Some("")}

IsPrefix(s, t) == Len(s) <= Len(t) /\ \A i \in 1..Len(s) : s[i] = t[i]

----------------------------------------------------------------------------
(* Properties *)

\* C1: when the API key or the API secret is unset or empty, a call of either
\* client has returned a configuration-error result and has issued no
\* outbound request.
C1_MissingCredentialsNoRequest ==
    (fn # "none" /\ (AMADEUS_API_KEY \in {None, Some("")} \/ AMADEUS_API_SECRET \in {None, Some("")}))
        => (pc = "done" /\ requests = <<>> /\ IsErrorResult)

C3_MissingTokenFieldIsError ==
    (Len(responses) >= 1 /\ Is2xx(responses[1]) /\ "access_token" \notin DOMAIN responses[1].json) =>
        /\ pc = "done"
        /\ Len(requests) = 1
        /\ IsErrorResult
        /\ fn = "hotels" => ReturnedStep("'auth'")

\* C4: in the hotel client, when the hotel-list response is a success with no
\* usable hotel identifier, the call has returned an error record with step 1
\* and the hotel-offers request was never issued.
C4_NoCandidatesNoOffersRequest ==
    (fn = "hotels" /\ Len(responses) >= 2 /\ Is2xx(responses[2])
                   /\ NoUsableIdentifier(responses[2].json)) =>
        /\ pc = "done"
        /\ ReturnedStep("1")
        /\ Len(requests) = 2
        /\ CallCount("offers") = 0

C4_Witness ==
    /\ fn = "hotels"
    /\ pc = "done"
    /\ Len(responses) = 2
    /\ Is2xx(responses[2])
    /\ "data" \in DOMAIN responses[2].json
    /\ responses[2].json.data # None
    /\ Len(responses[2].json.data[1]) > 0
    /\ NoUsableIdentifier(responses[2].json)
    /\ CallCount("offers") = 0

\* C5: in the hotel client, when token, list and offers requests all
\* succeeded, the value returned is exactly the parsed body of the
\* hotel-offers response.
C5_OffersPayloadVerbatim ==
    (fn = "hotels" /\ Len(responses) = 3 /\ Is2xx(responses[3])) =>
        /\ pc = "done"
        /\ outcome = "return"
        /\ result[1] = responses[3].json

C5_Witness ==
    /\ fn = "hotels"
    /\ Len(responses) = 3
    /\ Is2xx(responses[3])
    /\ outcome = "return"
    /\ "warnings" \in DOMAIN result[1]

\* C6: the flight-offers request carries returnDate only when return_date is
\* non-empty, children only when children > 0, infants only when infants > 0,
\* and travelClass only when travel_class upper-cased is one of the four
\* accepted classes, in which case the upper-cased value is sent; an
\* unrecognized travel_class is left out and the request is still issued.
C6_OptionalFlightParams ==
    /\ (fn = "flights" /\ Len(requests) >= 2) =>
          LET p == requests[2].params
              a == args
              accepted == {"ECONOMY", "PREMIUM_ECONOMY", "BUSINESS", "FIRST"}
          IN  /\ "returnDate" \in DOMAIN p <=> a.return_date \notin {None, Some("")}
              /\ "returnDate" \in DOMAIN p => p.returnDate = a.return_date[1]
              /\ "children" \in DOMAIN p <=> a.children > 0
              /\ "children" \in DOMAIN p => p.children = a.children
              /\ "infants" \in DOMAIN p <=> a.infants > 0
              /\ "infants" \in DOMAIN p => p.infants = a.infants
              /\ "travelClass" \in DOMAIN p <=>
                     (a.travel_class # None /\ Upper(a.travel_class[1]) \in accepted)
              /\ "travelClass" \in DOMAIN p =>
                     (p.travelClass = Upper(a.travel_class[1]) /\ p.travelClass \in accepted)
              /\ a.travel_class = Some("economy") =>
                     ("travelClass" \in DOMAIN p /\ p.travelClass = "ECONOMY")
              /\ a.travel_class = Some("FOO") => "travelClass" \notin DOMAIN p
    /\ (fn = "flights" /\ Len(responses) >= 1 /\ Is2xx(responses[1])
                       /\ DictGet(responses[1].json, "access_token") = Some("tok")) =>
          (Len(requests) = 2 /\ StageOfRequest(requests[2]) = "flight")

C6_Witness ==
    /\ fn = "flights"
    /\ pc = "f_offers"
    /\ Len(requests) = 2
    /\ args.travel_class = Some("FOO")
    /\ args.children = 0
    /\ args.infants = 0
    /\ args.return_date = Some("")
    /\ DOMAIN requests[2].params =
           {"originLocationCode", "destinationLocationCode", "departureDate",
            "adults", "nonStop", "max"}

\* the stages of the running call, in order
Stages == IF fn = "hotels" THEN <<"token", "list", "offers">> ELSE <<"token", "flight">>

\* the tag of the i-th stage of the hotel client
StageTag(i) == <<"'auth'", "1", "2">>[i]

\* the i-th stage of the running call was answered and failed: no response,
\* a non-2xx response, or (hotel client) a token response without a token or
\* a hotel list without a usable identifier
StageFailed(i) ==
    LET r == responses[i]
    IN  \/ r.kind = "exception"
        \/ IsNon2xx(r)
        \/ fn = "hotels" /\ i = 1 /\ Is2xx(r)
              /\ DictGet(r.json, "access_token") \in {None, Some("")}
        \/ fn = "hotels" /\ i = 2 /\ Is2xx(r) /\ NoUsableIdentifier(r.json)

C8_OptionalOfferFilters ==
    (fn = "hotels" /\ Len(requests) = 3) =>
        LET p == requests[3].params
        IN  /\ "currency" \in DOMAIN p <=> args.currency # ""
            /\ "priceRange" \in DOMAIN p <=> args.price_range # ""
            /\ "view" \in DOMAIN p <=> args.view # ""

\* C9: when a hotel-client stage fails with a non-2xx response that carries a
\* body, the details of the returned error record is that body text; the
\* exception text is the details only when there is no response.
C9_DetailsIsResponseBody ==
    (fn = "hotels" /\ pc = "done" /\ Len(responses) >= 1) =>
        LET r == responses[Len(responses)]
        IN  /\ (IsNon2xx(r) /\ r.text # "") =>
                   /\ IsErrorResult
                   /\ "details" \in DOMAIN result[1]
                   /\ result[1].details = r.text
            /\ r.kind = "exception" =>
                   /\ IsErrorResult
                   /\ "details" \in DOMAIN result[1]
                   /\ result[1].details = r.text

\* the provider's entries with a non-empty hotelId, in the provider's order
ProviderIds(json) ==
    LET d == json.data[1]
        kept == SelectSeq(d, LAMBDA h : "hotelId" \in DOMAIN h /\ h.hotelId \notin {None, Some("")})
    IN  [i \in 1..Len(kept) |-> kept[i].hotelId[1]]

\* C10: the identifier list sent to the offers endpoint has at most
\* max_hotels entries, for every value of max_hotels, and is a prefix, in the
\* provider's order, of the provider's entries with a non-empty hotelId.
C10_AtMostMaxHotelsPrefix ==
    (fn = "hotels" /\ Len(requests) = 3) =>
        /\ requests[3].params.hotelIds = Join(",", hotel_ids)
        /\ Len(hotel_ids) <= args.max_hotels
        /\ IsPrefix(hotel_ids, ProviderIds(responses[2].json))

============================================================================
